---- MODULE Spec2Model ----
(***************************************************************************)
(* A model of src/main.rs of rust-file-earser: the iced application App    *)
(* (update / subscription), the worker thread spawned by EraseFile, the    *)
(* overwrite engine App::securely_overwrite and the bounded flume channel  *)
(* between them.                                                           *)
(*                                                                         *)
(* Scaling.  The code's buffer of 4096 bytes, its throttle of one Updated  *)
(* per 100 writes and its channel of 1000 slots are scaled down            *)
(* (buffer_size, SendEvery, ChannelCapacity) so that several chunks per    *)
(* pass, several throttled events and a full queue all happen on files of  *)
(* a few bytes.  Every formula is stated in terms of these names.          *)
(***************************************************************************)
EXTENDS Integers, Sequences, FiniteSets, TLC

\* ------------------------------------------------------------------ bounds
MaxFileSize == 5
MaxPasses == 3
MaxJobs == 2
MaxDialogs == 1

\* let buffer_size = 4096 (scaled)
buffer_size == 2
\* chunk_count % 100 == 0 (scaled)
SendEvery == 2
\* flume::bounded(1000) (scaled)
ChannelCapacity == 2
\* Self::securely_overwrite(&path, 3, &tx)
PolicyPasses == 3

Paths == {"a", "b"}

\* a directory entry: no file of that name, or a regular file of `size` bytes
NoFile == [exists |-> FALSE, size |-> 0]
RegularFile(size) == [exists |-> TRUE, size |-> size]

\* the directories a run starts from: "a" is missing or a file of any size up
\* to MaxFileSize, "b" is missing or a file of one byte
Directories ==
    {d \in [Paths -> {NoFile} \cup {RegularFile(s) : s \in 0..MaxFileSize}] :
        d["b"] \in {NoFile, RegularFile(1)}}

\* ------------------------------------------------------------- f32 values
\* An f32 is [m, e], the value m * 2^e with 2^23 <= m < 2^24, or zero.
\* Rounding is to nearest, ties to even, as IEEE 754 binary32; exponent
\* underflow and overflow are out of reach of values in 0..100.
F32Bits == 24

F32Zero == [m |-> 0, e |-> 0]

RECURSIVE BitLen(_)
BitLen(n) == IF n = 0 THEN 0 ELSE 1 + BitLen(n \div 2)

RECURSIVE TrailingZeros(_)
TrailingZeros(n) == IF n % 2 = 1 THEN 0 ELSE 1 + TrailingZeros(n \div 2)

OddPart(n) == n \div (2 ^ TrailingZeros(n))

\* sig * 2^e (sig > 0; sticky: nonzero bits were dropped below sig) rounded
RoundF32(sig, e, sticky) ==
    LET len == BitLen(sig) IN
    IF len <= F32Bits
    THEN [m |-> sig * 2 ^ (F32Bits - len), e |-> e - (F32Bits - len)]
    ELSE LET k    == len - F32Bits
             q    == sig \div (2 ^ k)
             r    == sig % (2 ^ k)
             half == 2 ^ (k - 1)
             up   == r > half \/ (r = half /\ (sticky \/ q % 2 = 1))
             q1   == IF up THEN q + 1 ELSE q
         IN  IF q1 = 2 ^ F32Bits
             THEN [m |-> 2 ^ (F32Bits - 1), e |-> e + k + 1]
             ELSE [m |-> q1, e |-> e + k]

\* `x as f32` for an unsigned integer x
U64ToF32(n) == IF n = 0 THEN F32Zero ELSE RoundF32(n, 0, FALSE)

\* n more quotient bits of r / den (r < den), by long division in base 2
RECURSIVE DivBits(_, _, _, _)
DivBits(q, r, den, n) ==
    IF n = 0 THEN <<q, r>>
    ELSE DivBits(2 * q + (2 * r) \div den, (2 * r) % den, den, n - 1)

\* a / b on f32 (b nonzero)
F32Div(a, b) ==
    IF a.m = 0 THEN F32Zero
    ELSE LET qr == DivBits(a.m \div b.m, a.m % b.m, b.m, F32Bits + 1)
         IN  RoundF32(qr[1], a.e - b.e - (F32Bits + 1), qr[2] # 0)

\* a * b on f32
F32Mul(a, b) ==
    IF a.m = 0 \/ b.m = 0 THEN F32Zero
    ELSE RoundF32(a.m * OddPart(b.m), a.e + b.e + TrailingZeros(b.m), FALSE)

\* a <= b on f32 (non-negative values)
F32Le(a, b) ==
    \/ a.m = 0
    \/ /\ b.m # 0
       /\ \/ a.e < b.e
          \/ a.e = b.e /\ a.m <= b.m

\* the literal 100.0
F32Hundred == U64ToF32(100)


\* ------------------------------------------------------------------ state
VARIABLES
    file,       \* App.file
    progress,   \* App.progress (f32)
    erasing,    \* App.erasing
    receiver,   \* App.receiver: 0 is None, k is Some(rx of job k's channel)
    alive,      \* the application is running (main has not returned)
    dialogs,    \* file dialogs started by SelectFile and not yet answered
    fs,         \* the directory: path -> NoFile or RegularFile(size)
    thread,     \* the worker thread of the latest job
    queue,      \* the content of that job's channel
    jobs,       \* number of jobs started
    events,     \* the events the latest job's thread has sent (tx.send calls);
                \* `sent` tells whether the channel accepted the event
    observed,   \* the events of the latest job that update has processed
    ops,        \* the file operations the latest job has performed
    ignored     \* an EraseFile was processed while the latest job was Running

appVars == <<file, progress, erasing, receiver, dialogs>>
jobVars == <<thread, queue, jobs, events, observed, ops, ignored>>
vars == <<file, progress, erasing, receiver, alive, dialogs, fs, thread, queue,
          jobs, events, observed, ops, ignored>>

\* enum Progress
Updated(val, job) ==
    [kind |-> "Updated", val |-> val, ok |-> TRUE, job |-> job, sent |-> TRUE]
Finished(success, job) ==
    [kind |-> "Finished", val |-> F32Zero, ok |-> success, job |-> job, sent |-> TRUE]

\* a sequence of n copies of v
Fill(n, v) == [i \in 1..n |-> v]

\* no thread has been spawned yet
NoThread ==
    [pc |-> "none", job |-> 0, path |-> "", passes |-> 0, handle |-> FALSE,
     file_size |-> 0, remaining |-> 0, completed_work |-> 0, total_work |-> 0,
     chunk_count |-> 0, pass |-> 0, result |-> FALSE,
     data |-> <<>>, durable |-> <<>>]

\* std::thread::spawn(move || ...) with the captured path, passes and tx
Spawn(path, passes, job) ==
    [NoThread EXCEPT !.pc = "open", !.job = job, !.path = path, !.passes = passes]

\* App::new, and a directory holding the files the user can pick
Init ==
    /\ file = ""
    /\ progress = F32Zero
    /\ erasing = FALSE
    /\ receiver = 0
    /\ alive = TRUE
    /\ dialogs = 0
    /\ fs \in Directories
    /\ thread = NoThread
    /\ queue = <<>>
    /\ jobs = 0
    /\ events = <<>>
    /\ observed = <<>>
    /\ ops = <<>>
    /\ ignored = FALSE

\* ------------------------------------------------------------ the channel
\* some Receiver of the thread's channel is alive: App.receiver (and the
\* subscription's clone of it) until Finished is processed or the App is dropped
Connected == alive /\ receiver = thread.job

\* Faulty variant of CanSend: an unbounded channel, send never blocks.
CanSendUnbounded == TRUE

\* flume send on the bounded channel blocks while the queue is full and a
\* receiver is alive
CanSend == ~Connected \/ Len(queue) < ChannelCapacity

\* tx.send(ev): Ok and the event is queued, or Err(SendError) when every
\* receiver has been dropped
Send(ev) ==
    /\ CanSend
    /\ events' = Append(events, [ev EXCEPT !.sent = Connected])
    /\ queue' = IF Connected THEN Append(queue, ev) ELSE queue

\* Faulty variant of Unlink: the directory entry is left in place.
UnlinkNothing(dir, path) == dir

\* remove_file(path) succeeding on directory dir
Unlink(dir, path) == [dir EXCEPT ![path] = NoFile]

\* ------------------------------------------------------- securely_overwrite
\* the log of file operations: the operation, whether it returned Ok, the pass
\* it belongs to and the number of events the job had sent before it
Log(op, ok) ==
    Append(ops, [op |-> op, ok |-> ok, pass |-> thread.pass, sent |-> Len(events)])

\* Faulty variant of Failed: the closure unwraps the engine's result, so the thread
\* panics on an error before it sends anything.
FailedPanics(t) == [t EXCEPT !.pc = "panicked", !.result = FALSE, !.handle = FALSE]

\* Faulty variant of Failed: the error is reported as a success (is_err for is_ok).
FailedReportsOk(t) == [t EXCEPT !.pc = "finish", !.result = TRUE, !.handle = FALSE]

\* securely_overwrite returns Err (the ? operator): the handle is dropped and
\* the closure goes on to send Finished(false)
Failed(t) == [t EXCEPT !.pc = "finish", !.result = FALSE, !.handle = FALSE]

\* chunk_count += 1 on the i32 the literal 0 infers (release build: wraps)
I32Max == 2147483647
I32Inc(x) == IF x = I32Max THEN -I32Max - 1 ELSE x + 1

\* Faulty variant of TotalWork: the work of one pass only.
TotalWorkOnePass(passes, file_size) == file_size

\* let total_work = passes as u64 * file_size as u64
TotalWork(passes, file_size) == passes * file_size

\* (completed_work as f32 / total_work as f32) * 100.0
ProgressF32(completed_work, total_work) ==
    F32Mul(F32Div(U64ToF32(completed_work), U64ToF32(total_work)), F32Hundred)

\* ProgressF32 tabulated over the byte counts the bounds allow, so that each
\* value is computed once
MaxWork == (MaxPasses + PolicyPasses) * MaxFileSize
ProgressTable ==
    [c \in 0..MaxWork |-> [t \in 1..MaxWork |-> ProgressF32(c, t)]]

ProgressOf(completed_work, total_work) == ProgressTable[completed_work][total_work]

\* File::options().read(true).write(true).open(path)?
Open ==
    /\ thread.pc = "open"
    /\ \E ok \in BOOLEAN :
        /\ ok => thread.path \in Paths /\ fs[thread.path].exists
        /\ ops' = Log("open", ok)
        /\ thread' = IF ok THEN [thread EXCEPT !.pc = "metadata", !.handle = TRUE]
                     ELSE Failed(thread)
    /\ UNCHANGED <<appVars, alive, fs, queue, jobs, events, observed, ignored>>

\* Faulty variant of Metadata: no early return for the empty file.
MetadataNoEmptyCase ==
    /\ thread.pc = "metadata"
    /\ \E ok \in BOOLEAN :
        /\ ops' = Log("metadata", ok)
        /\ thread' =
             IF ~ok THEN Failed(thread)
             ELSE LET size == fs[thread.path].size IN
                  [thread EXCEPT !.pc = "seek", !.file_size = size,
                       !.total_work = TotalWork(thread.passes, size),
                       !.completed_work = 0, !.chunk_count = 0, !.pass = 0,
                       !.data = Fill(size, 0), !.durable = Fill(size, 0)]
    /\ UNCHANGED <<appVars, alive, fs, queue, jobs, events, observed, ignored>>

\* let file_size = file.metadata()?.len() as usize; if file_size == 0 {...}
Metadata ==
    /\ thread.pc = "metadata"
    /\ \E ok \in BOOLEAN :
        /\ ops' = Log("metadata", ok)
        /\ thread' =
             IF ~ok THEN Failed(thread)
             ELSE LET size == fs[thread.path].size IN
                  IF size = 0
                  THEN [thread EXCEPT !.pc = "remove_empty", !.file_size = 0]
                  ELSE [thread EXCEPT !.pc = "seek", !.file_size = size,
                            !.total_work = TotalWork(thread.passes, size),
                            !.completed_work = 0, !.chunk_count = 0, !.pass = 0,
                            !.data = Fill(size, 0), !.durable = Fill(size, 0)]
    /\ UNCHANGED <<appVars, alive, fs, queue, jobs, events, observed, ignored>>

\* remove_file(path)? of the empty file
RemoveEmpty ==
    /\ thread.pc = "remove_empty"
    /\ \E ok \in BOOLEAN :
        /\ ops' = Log("remove", ok)
        /\ fs' = IF ok THEN Unlink(fs, thread.path) ELSE fs
        /\ thread' = IF ok THEN [thread EXCEPT !.pc = "send_empty"] ELSE Failed(thread)
    /\ UNCHANGED <<appVars, alive, queue, jobs, events, observed, ignored>>

\* tx.send(Progress::Updated(100.0)).map_err(..)? at pc `at`, then Ok(()): the
\* function returns and the handle, if still open, is dropped
SendFinal(at) ==
    /\ thread.pc = at
    /\ Send(Updated(F32Hundred, thread.job))
    /\ thread' = IF Connected
                 THEN [thread EXCEPT !.pc = "finish", !.result = TRUE, !.handle = FALSE]
                 ELSE Failed(thread)
    /\ UNCHANGED <<appVars, alive, fs, jobs, observed, ops, ignored>>

\* tx.send(Progress::Updated(100.0)).map_err(..)?; return Ok(()) of the empty file
SendEmpty == SendFinal("send_empty")

\* Faulty variant of AfterChunk: `if remaining > 0` for `while`, one chunk at
\* most is written in a pass.
AfterChunkOnce(remaining) == "sync"

\* while remaining > 0 {..} file.sync_all(): the next chunk, or the sync when
\* nothing of the pass remains
AfterChunk(remaining) == IF remaining > 0 THEN "write" ELSE "sync"

\* Faulty variant of Seek: the write counter starts again at 0 in every pass.
SeekResetsCounter ==
    /\ thread.pc = "seek"
    /\ \E ok \in BOOLEAN :
        /\ ops' = Log("seek", ok)
        /\ thread' = IF ok
                     THEN [thread EXCEPT !.pc = AfterChunk(thread.file_size),
                               !.remaining = thread.file_size, !.chunk_count = 0]
                     ELSE Failed(thread)
    /\ UNCHANGED <<appVars, alive, fs, queue, jobs, events, observed, ignored>>

\* for _pass in 0..passes { let mut remaining = file_size; file.seek(Start(0))?;
Seek ==
    /\ thread.pc = "seek"
    /\ \E ok \in BOOLEAN :
        /\ ops' = Log("seek", ok)
        /\ thread' = IF ok
                     THEN [thread EXCEPT !.pc = AfterChunk(thread.file_size),
                               !.remaining = thread.file_size]
                     ELSE Failed(thread)
    /\ UNCHANGED <<appVars, alive, fs, queue, jobs, events, observed, ignored>>

\* chunk_count % 100 == 0
Throttle(chunk_count) == chunk_count % SendEvery = 0

\* the chunk [from+1 .. from+n] of the file overwritten with this pass's bytes
WriteData(data, from, n, pass) ==
    [i \in 1..Len(data) |-> IF i > from /\ i <= from + n THEN pass + 1 ELSE data[i]]

\* let current_chunk = buffer_size.min(remaining); fill the buffer with random
\* bytes; file.write_all(&buffer[..current_chunk])?; remaining -= ..;
\* completed_work += ..; chunk_count += 1; if chunk_count % 100 == 0 {..}
\* A failing write_all may have written a prefix of the chunk.
Write ==
    /\ thread.pc = "write"
    /\ LET current_chunk == IF buffer_size < thread.remaining THEN buffer_size
                            ELSE thread.remaining
           at == thread.file_size - thread.remaining
       IN \/ /\ ops' = Log("write", TRUE)
             /\ LET rem == thread.remaining - current_chunk
                    cnt == I32Inc(thread.chunk_count)
                IN  thread' = [thread EXCEPT
                        !.remaining = rem,
                        !.completed_work = thread.completed_work + current_chunk,
                        !.chunk_count = cnt,
                        !.data = WriteData(thread.data, at, current_chunk, thread.pass),
                        !.pc = IF Throttle(cnt) THEN "send_progress" ELSE AfterChunk(rem)]
          \/ \E written \in 0..(current_chunk - 1) :
             /\ ops' = Log("write", FALSE)
             /\ thread' = [Failed(thread) EXCEPT
                        !.data = WriteData(thread.data, at, written, thread.pass)]
    /\ UNCHANGED <<appVars, alive, fs, queue, jobs, events, observed, ignored>>

\* Faulty variant of SendProgress: the result of the send is discarded
\* (`let _ = tx.send(..)`), the pass goes on without an observer.
SendProgressIgnoresError ==
    /\ thread.pc = "send_progress"
    /\ Send(Updated(ProgressOf(thread.completed_work, thread.total_work), thread.job))
    /\ thread' = [thread EXCEPT !.pc = AfterChunk(thread.remaining)]
    /\ UNCHANGED <<appVars, alive, fs, jobs, observed, ops, ignored>>

\* let progress = ...; tx.send(Progress::Updated(progress)).map_err(..)?
SendProgress ==
    /\ thread.pc = "send_progress"
    /\ Send(Updated(ProgressOf(thread.completed_work, thread.total_work), thread.job))
    /\ thread' = IF Connected
                 THEN [thread EXCEPT !.pc = AfterChunk(thread.remaining)]
                 ELSE Failed(thread)
    /\ UNCHANGED <<appVars, alive, fs, jobs, observed, ops, ignored>>

\* Faulty variant of Sync: the result of sync_all is discarded.
SyncIgnoresError ==
    /\ thread.pc = "sync"
    /\ \E ok \in BOOLEAN :
        /\ ops' = Log("sync", ok)
        /\ thread' = [thread EXCEPT !.durable = IF ok THEN thread.data ELSE thread.durable,
                          !.pass = thread.pass + 1,
                          !.pc = IF thread.pass + 1 < thread.passes
                                 THEN "seek" ELSE "drop"]
    /\ UNCHANGED <<appVars, alive, fs, queue, jobs, events, observed, ignored>>

\* file.sync_all()?; } and the loop's next pass, or the code after the loop
Sync ==
    /\ thread.pc = "sync"
    /\ \E ok \in BOOLEAN :
        /\ ops' = Log("sync", ok)
        /\ thread' = IF ok
                     THEN [thread EXCEPT !.durable = thread.data,
                               !.pass = thread.pass + 1,
                               !.pc = IF thread.pass + 1 < thread.passes
                                      THEN "seek" ELSE "drop"]
                     ELSE Failed(thread)
    /\ UNCHANGED <<appVars, alive, fs, queue, jobs, events, observed, ignored>>

\* Faulty variant of Drop: the handle is still open when the file is removed.
DropKeepsHandle ==
    /\ thread.pc = "drop"
    /\ thread' = [thread EXCEPT !.pc = "remove"]
    /\ UNCHANGED <<appVars, alive, fs, queue, jobs, events, observed, ops, ignored>>

\* drop(file)
Drop ==
    /\ thread.pc = "drop"
    /\ ops' = Log("close", TRUE)
    /\ thread' = [thread EXCEPT !.pc = "remove", !.handle = FALSE]
    /\ UNCHANGED <<appVars, alive, fs, queue, jobs, events, observed, ignored>>

\* remove_file(path)?
Remove ==
    /\ thread.pc = "remove"
    /\ \E ok \in BOOLEAN :
        /\ ops' = Log("remove", ok)
        /\ fs' = IF ok THEN Unlink(fs, thread.path) ELSE fs
        /\ thread' = IF ok THEN [thread EXCEPT !.pc = "send_final"] ELSE Failed(thread)
    /\ UNCHANGED <<appVars, alive, queue, jobs, events, observed, ignored>>

\* Faulty variant of SendLast: no final Updated(100.0) after the passes.
SendLastSkipped ==
    /\ thread.pc = "send_final"
    /\ thread' = [thread EXCEPT !.pc = "finish", !.result = TRUE]
    /\ UNCHANGED <<appVars, alive, fs, queue, jobs, events, observed, ops, ignored>>

\* tx.send(Progress::Updated(100.0)).map_err(..)?; Ok(()) after the passes
SendLast == SendFinal("send_final")

\* Faulty variant of Finish: the closure reports only a successful erase and returns
\* without a terminal event when securely_overwrite failed.
FinishOnlyOnSuccess ==
    /\ thread.pc = "finish"
    /\ IF thread.result
       THEN /\ Send(Finished(thread.result, thread.job))
            /\ thread' = [thread EXCEPT !.pc = IF Connected THEN "done" ELSE "panicked"]
       ELSE /\ thread' = [thread EXCEPT !.pc = "done"]
            /\ UNCHANGED <<queue, events>>
    /\ UNCHANGED <<appVars, alive, fs, jobs, observed, ops, ignored>>

\* let result = Self::securely_overwrite(..).is_ok();
\* tx.send(Progress::Finished(result)).expect("Channel error in thread");
Finish ==
    /\ thread.pc = "finish"
    /\ Send(Finished(thread.result, thread.job))
    /\ thread' = [thread EXCEPT !.pc = IF Connected THEN "done" ELSE "panicked"]
    /\ UNCHANGED <<appVars, alive, fs, jobs, observed, ops, ignored>>

ThreadNext ==
    \/ Open \/ Metadata \/ RemoveEmpty \/ SendEmpty \/ Seek \/ Write
    \/ SendProgress \/ Sync \/ Drop \/ Remove \/ SendLast \/ Finish

\* ------------------------------------------------------------ App::update
\* Faulty variant of StartGuard: every EraseFile starts a job.
StartGuardAlways == TRUE

\* if !self.erasing
StartGuard == ~erasing

\* Faulty variant of EraseFile: the progress of the previous job is kept
\* when a job starts.
EraseFileKeepsProgress ==
    /\ alive
    /\ IF StartGuard
       THEN /\ jobs < MaxJobs
            /\ queue' = <<>>
            /\ receiver' = jobs + 1
            /\ erasing' = TRUE
            /\ thread' = Spawn(file, PolicyPasses, jobs + 1)
            /\ jobs' = jobs + 1
            /\ events' = <<>>
            /\ observed' = <<>>
            /\ ops' = <<>>
            /\ ignored' = FALSE
            /\ UNCHANGED <<file, progress, dialogs, alive, fs>>
       ELSE /\ ignored' = TRUE
            /\ UNCHANGED <<appVars, alive, fs, thread, queue, jobs, events, observed, ops>>

\* Message::EraseFile
EraseFile ==
    /\ alive
    /\ IF StartGuard
       THEN /\ jobs < MaxJobs
            /\ queue' = <<>>
            /\ receiver' = jobs + 1
            /\ erasing' = TRUE
            /\ progress' = F32Zero
            /\ thread' = Spawn(file, PolicyPasses, jobs + 1)
            /\ jobs' = jobs + 1
            /\ events' = <<>>
            /\ observed' = <<>>
            /\ ops' = <<>>
            /\ ignored' = FALSE
            /\ UNCHANGED <<file, dialogs, alive, fs>>
       ELSE /\ ignored' = TRUE
            /\ UNCHANGED <<appVars, alive, fs, thread, queue, jobs, events, observed, ops>>

\* Faulty variant of DeliverProgress: a failed job stays Running (the flag
\* and the receiver are cleared in the success branch only).
DeliverClearsOnSuccessOnly ==
    /\ alive
    /\ receiver # 0
    /\ queue # <<>>
    /\ LET p == Head(queue) IN
        /\ queue' = Tail(queue)
        /\ observed' = Append(observed, p)
        /\ IF p.kind = "Updated"
           THEN /\ progress' = p.val
                /\ UNCHANGED <<erasing, receiver>>
           ELSE /\ erasing' = (erasing /\ ~p.ok)
                /\ receiver' = IF p.ok THEN 0 ELSE receiver
                /\ progress' = F32Hundred
    /\ UNCHANGED <<file, dialogs, alive, fs, thread, jobs, events, ops, ignored>>

\* Faulty variant of DeliverProgress: Finished clears the flag but keeps the
\* receiver.
DeliverKeepsReceiver ==
    /\ alive
    /\ receiver # 0
    /\ queue # <<>>
    /\ LET p == Head(queue) IN
        /\ queue' = Tail(queue)
        /\ observed' = Append(observed, p)
        /\ IF p.kind = "Updated"
           THEN /\ progress' = p.val
                /\ UNCHANGED <<erasing, receiver>>
           ELSE /\ erasing' = FALSE
                /\ receiver' = receiver
                /\ progress' = F32Hundred
    /\ UNCHANGED <<file, dialogs, alive, fs, thread, jobs, events, ops, ignored>>

\* Faulty variant of DeliverProgress: the progress is set to 100.0 for
\* Finished(true) only.
DeliverHundredOnSuccessOnly ==
    /\ alive
    /\ receiver # 0
    /\ queue # <<>>
    /\ LET p == Head(queue) IN
        /\ queue' = Tail(queue)
        /\ observed' = Append(observed, p)
        /\ IF p.kind = "Updated"
           THEN /\ progress' = p.val
                /\ UNCHANGED <<erasing, receiver>>
           ELSE /\ erasing' = FALSE
                /\ receiver' = 0
                /\ progress' = IF p.ok THEN F32Hundred ELSE progress
    /\ UNCHANGED <<file, dialogs, alive, fs, thread, jobs, events, ops, ignored>>

\* App::subscription hands the next event of the receiver to update as
\* Message::Progress(p)
DeliverProgress ==
    /\ alive
    /\ receiver # 0
    /\ queue # <<>>
    /\ LET p == Head(queue) IN
        /\ queue' = Tail(queue)
        /\ observed' = Append(observed, p)
        /\ IF p.kind = "Updated"
           THEN /\ progress' = p.val
                /\ UNCHANGED <<erasing, receiver>>
           ELSE /\ erasing' = FALSE
                /\ receiver' = 0
                /\ progress' = F32Hundred
    /\ UNCHANGED <<file, dialogs, alive, fs, thread, jobs, events, ops, ignored>>

\* Message::SelectFile => Task::perform(open_file(&["*"]), Message::FileOpened)
SelectFile ==
    /\ alive
    /\ dialogs < MaxDialogs
    /\ dialogs' = dialogs + 1
    /\ UNCHANGED <<file, progress, erasing, receiver, alive, fs, jobVars>>

\* Faulty variant of FileOpened: the running thread reads the path from the
\* App instead of its own copy.
FileOpenedRetargetsJob ==
    /\ alive
    /\ dialogs > 0
    /\ dialogs' = dialogs - 1
    /\ \/ \E file_path \in Paths : file' = file_path
       \/ UNCHANGED file
    /\ thread' = [thread EXCEPT !.path = file']
    /\ UNCHANGED <<progress, erasing, receiver, alive, fs, queue, jobs, events,
                   observed, ops, ignored>>

\* Message::FileOpened(result)
FileOpened ==
    /\ alive
    /\ dialogs > 0
    /\ dialogs' = dialogs - 1
    /\ \/ \E file_path \in Paths : file' = file_path
       \/ UNCHANGED file
    /\ UNCHANGED <<progress, erasing, receiver, alive, fs, jobVars>>

\* the window is closed: run_with returns and the App is dropped
Exit ==
    /\ alive
    /\ alive' = FALSE
    /\ UNCHANGED <<appVars, fs, jobVars>>

Next ==
    \/ EraseFile \/ DeliverProgress \/ SelectFile \/ FileOpened \/ Exit
    \/ ThreadNext

Spec == Init /\ [][Next]_vars

\* ------------------------------------------------- the worker on its own
\* The worker thread of one job whose pass count is drawn from 1..MaxPasses:
\* the state right after an accepted EraseFile, with the passes argument of
\* securely_overwrite free (the application always passes PolicyPasses).
InitEngine ==
    /\ file \in Paths
    /\ progress = F32Zero
    /\ erasing = TRUE
    /\ receiver = 1
    /\ alive = TRUE
    /\ dialogs = 0
    /\ fs \in Directories
    /\ \E passes \in 1..MaxPasses : thread = Spawn(file, passes, 1)
    /\ queue = <<>>
    /\ jobs = 1
    /\ events = <<>>
    /\ observed = <<>>
    /\ ops = <<>>
    /\ ignored = FALSE

NextEngine == ThreadNext \/ DeliverProgress \/ Exit

EngineSpec == InitEngine /\ [][NextEngine]_vars

\* The OS schedules the worker thread while it can run, and the iced runtime
\* keeps polling the subscription's stream while the application runs.
LiveSpec == Spec /\ WF_vars(ThreadNext) /\ WF_vars(DeliverProgress)

\* ================================================================ claims
\* the worker thread has returned from its closure, or panicked in it
Terminated == thread.pc \in {"done", "panicked"}

\* the positions of the Finished events in a sequence of events
FinishedAt(seq) == {i \in DOMAIN seq : seq[i].kind = "Finished"}

\* the events the channel accepted
Queued(seq) == SelectSeq(seq, LAMBDA e : e.sent)

FinishedObserved(j) ==
    \E i \in DOMAIN observed : observed[i].kind = "Finished" /\ observed[i].job = j

\* C2: once job j has been started, update eventually processes the Finished
\* event of job j, whether the engine succeeds or fails, unless the
\* application exits first (the observer then no longer pulls events).
C2_FinishedDelivered ==
    \A j \in 1..MaxJobs :
        (jobs = j) ~> (~alive \/ (jobs = j /\ FinishedObserved(j)))

\* the producer blocked in send on a full queue while the job is Running
C2_Witness ==
    /\ Connected
    /\ Len(queue) = ChannelCapacity
    /\ thread.pc \in {"send_progress", "send_final", "finish"}

\* ---------------------------------------------------------------- C3
\* securely_overwrite has returned Ok(()) in the latest job
Succeeded == thread.result /\ thread.pc \in {"finish", "done", "panicked"}

\* the path of the latest job names a file
PathExists == thread.path \in Paths /\ fs[thread.path].exists

\* C3: for every file size and pass count, from the moment securely_overwrite
\* has returned Ok (before Finished(true) is sent) and in every state where
\* Finished(true) has been sent, the path has no directory entry.
C3_SuccessRemovesPath ==
    (Succeeded \/ \E i \in DOMAIN events : events[i].kind = "Finished" /\ events[i].ok)
        => ~PathExists

\* a non-empty file erased in two passes, Finished(true) queued
C3_Witness ==
    /\ thread.pc = "done"
    /\ thread.result
    /\ thread.passes = 2
    /\ thread.file_size = MaxFileSize
    /\ ~PathExists

\* ---------------------------------------------------------------- C4
\* the latest job found an empty file: open and metadata returned Ok, the
\* size was 0, and remove_file returned Ok
EmptyFileJob ==
    /\ Len(ops) >= 2
    /\ ops[1].op = "open" /\ ops[1].ok
    /\ ops[2].op = "metadata" /\ ops[2].ok
    /\ thread.file_size = 0
    /\ \E i \in DOMAIN ops : ops[i].op = "remove" /\ ops[i].ok

\* the only file operations were open, metadata and remove
OnlyOpenMetadataRemove ==
    /\ Len(ops) = 3
    /\ ops[3].op = "remove"

\* C4 as stated: the job of an empty file whose open, metadata and remove
\* succeed does no seek, write or sync, removes the file and sends exactly
\* Updated(100.0), Finished(true).
C4_EmptyFileReportsSuccess ==
    (EmptyFileJob /\ Terminated) =>
        /\ OnlyOpenMetadataRemove
        /\ ~PathExists
        /\ Len(events) = 2
        /\ events[1].kind = "Updated" /\ events[1].val = F32Hundred
        /\ events[2].kind = "Finished" /\ events[2].ok

\* C4 (amended): such a job does no seek, write or sync, removes the file and
\* sends exactly Updated(100.0) and then Finished(success); success is true
\* when the channel accepted the Updated(100.0), and false when the App had
\* been dropped before that send (the file is removed all the same).
C4_EmptyFileJob ==
    /\ EmptyFileJob => OnlyOpenMetadataRemove /\ ~PathExists
    /\ (EmptyFileJob /\ Terminated) =>
        /\ Len(events) = 2
        /\ events[1].kind = "Updated" /\ events[1].val = F32Hundred
        /\ events[2].kind = "Finished"
        /\ events[2].ok <=> events[1].sent
        /\ alive => events[2].ok

\* an empty file erased and reported as a success
C4_Witness ==
    /\ EmptyFileJob
    /\ thread.pc = "done"
    /\ events[2].ok

\* ---------------------------------------------------------------- C5
\* the Updated events of a sequence of events
Updates(seq) == SelectSeq(seq, LAMBDA e : e.kind = "Updated")

\* the events before the first Finished of a sequence that holds one
BeforeFinished(seq) ==
    SubSeq(seq, 1, (CHOOSE i \in FinishedAt(seq) : \A j \in FinishedAt(seq) : i <= j) - 1)

\* C5 as stated: for every job on a non-empty file, the last Updated the
\* observer processed before Finished is Updated(100.0).
C5_LastUpdatedIsHundred ==
    (thread.file_size > 0 /\ FinishedAt(observed) # {}) =>
        LET u == Updates(BeforeFinished(observed)) IN
            u # <<>> /\ u[Len(u)].val = F32Hundred

\* C5 (amended): for every job on a non-empty file that succeeds, the event
\* sent (and observed) immediately before Finished(true) is Updated(100.0),
\* whether or not the number of writes is a multiple of the throttling
\* interval; a job that fails sends no Updated(100.0) of its own accord: its
\* last Updated is the last throttled one, if any.
C5_SuccessEndsWithHundred ==
    /\ (thread.file_size > 0 /\ Succeeded) =>
            LET n == IF Terminated THEN Len(events) - 1 ELSE Len(events) IN
                /\ n >= 1
                /\ events[n].kind = "Updated" /\ events[n].val = F32Hundred
    /\ \A i \in FinishedAt(observed) :
            (thread.file_size > 0 /\ observed[i].ok) =>
                /\ i > 1
                /\ observed[i - 1].kind = "Updated"
                /\ observed[i - 1].val = F32Hundred

\* a successful job whose number of writes is no multiple of the interval,
\* its Finished(true) processed by update
C5_Witness ==
    /\ thread.file_size > 0
    /\ thread.chunk_count % SendEvery # 0
    /\ \E i \in FinishedAt(observed) : observed[i].ok

\* ---------------------------------------------------------------- C6
\* the Updated values of a sequence never decrease and never exceed 100.0
Monotone(seq) ==
    LET u == Updates(seq) IN
        /\ \A i, j \in DOMAIN u : i < j => F32Le(u[i].val, u[j].val)
        /\ \A i \in DOMAIN u : F32Le(u[i].val, F32Hundred)

\* C6: within a job the Updated fractions sent, and those observed, are
\* non-decreasing over all passes, the final Updated(100.0) included, and
\* none exceeds 100.0; completed_work never exceeds total_work.
C6_ProgressMonotone ==
    /\ Monotone(events)
    /\ Monotone(observed)
    /\ thread.completed_work <= thread.total_work

\* a job with rising fractions whose last throttled Updated is already 100.0,
\* followed by the final Updated(100.0): a legal duplicate
C6_Witness ==
    LET u == Updates(events) IN
        /\ Len(u) >= 4
        /\ u[1].val # u[2].val
        /\ u[Len(u) - 1].val = F32Hundred
        /\ thread.pc = "done"

\* ---------------------------------------------------------------- C7
\* the state a start request must leave alone while a job is Running
StartState == <<erasing, progress, receiver, thread, queue, jobs, events, observed, file>>

\* C7: an EraseFile processed while a job is Running (the step that sets
\* `ignored`) spawns no thread, creates no channel and leaves erasing,
\* progress and receiver unchanged; and a thread is spawned (jobs grows) only
\* by a step taken when no job is Running and the previous thread, if any,
\* has sent its Finished event: so at most one thread that has not yet sent
\* Finished exists at any time.
C7_StartGuard ==
    /\ [][(erasing /\ ignored' # ignored) => UNCHANGED StartState]_vars
    /\ [][(jobs' # jobs) =>
            /\ ~erasing
            /\ jobs' = jobs + 1
            /\ thread.pc \in {"none", "done"}
            /\ queue = <<>>]_vars

\* an EraseFile was processed while the thread of the Running job was writing
C7_Witness ==
    /\ erasing
    /\ ignored
    /\ thread.pc = "write"

\* ---------------------------------------------------------------- C8
\* ceil(a / b)
CeilDiv(a, b) == (a + b - 1) \div b

\* writes of one pass, writes of a job and throttled Updated events of a job
\* on a file of s bytes, with p passes, buffers of b bytes and one Updated
\* per t writes
WritesPerPass(s, b) == CeilDiv(s, b)
WritesPerJob(s, p, b) == p * WritesPerPass(s, b)
ThrottledPerJob(s, p, b, t) == WritesPerJob(s, p, b) \div t

\* the successful writes the latest job made in pass k
WritesOfPass(k) == {i \in DOMAIN ops : ops[i].op = "write" /\ ops[i].ok /\ ops[i].pass = k}

\* C8: a successful job on a non-empty file of s bytes with p passes makes
\* ceil(s/B) writes in each pass and p*ceil(s/B) in all, and sends exactly
\* floor(p*ceil(s/B)/T) throttled Updated events (the write counter runs on
\* over the passes), then Updated(100.0), then Finished(true); with the
\* code's B = 4096 and T = 100, a file of 10485760 bytes and 3 passes give
\* 2560 writes per pass, 7680 writes and 76 throttled events.
C8_WriteAndEventCounts ==
    /\ (Succeeded /\ thread.file_size > 0) =>
        LET s == thread.file_size
            p == thread.passes
            n == ThrottledPerJob(s, p, buffer_size, SendEvery)
        IN  /\ \A k \in 0..(p - 1) :
                    Cardinality(WritesOfPass(k)) = WritesPerPass(s, buffer_size)
            /\ Cardinality({i \in DOMAIN ops : ops[i].op = "write"})
                    = WritesPerJob(s, p, buffer_size)
            /\ thread.chunk_count = WritesPerJob(s, p, buffer_size)
            /\ Len(events) = n + (IF Terminated THEN 2 ELSE 1)
            /\ \A i \in 1..(n + 1) : events[i].kind = "Updated"
            /\ events[n + 1].val = F32Hundred
            /\ Terminated => events[n + 2].kind = "Finished" /\ events[n + 2].ok
    /\ WritesPerPass(10485760, 4096) = 2560
    /\ WritesPerJob(10485760, 3, 4096) = 7680
    /\ ThrottledPerJob(10485760, 3, 4096, 100) = 76

\* a file of MaxFileSize bytes erased in 3 passes whose last pass ends on a
\* short chunk, with throttled events sent in the middle of a pass
C8_Witness ==
    /\ thread.pc = "done"
    /\ thread.result
    /\ thread.passes = 3
    /\ thread.file_size = MaxFileSize
    /\ thread.file_size % buffer_size # 0
    /\ Len(events) > 3

\* ---------------------------------------------------------------- C9
\* the latest job's open returned Err
OpenFailed == ops # <<>> /\ ops[1].op = "open" /\ ~ops[1].ok

\* C9: when open fails, the job performs no other file operation (no seek,
\* write, sync or remove), sends no Updated event, and the one event it sends
\* is Finished(false).
C9_OpenFailure ==
    OpenFailed =>
        /\ Len(ops) = 1
        /\ thread.pc \in {"finish", "done", "panicked"}
        /\ Updates(events) = <<>>
        /\ Len(events) = (IF Terminated THEN 1 ELSE 0)
        /\ Terminated => events[1].kind = "Finished" /\ ~events[1].ok

\* open failed on a file that exists (permission denied), Finished(false) queued
C9_Witness ==
    /\ OpenFailed
    /\ PathExists
    /\ thread.pc = "done"

\* ---------------------------------------------------------------- C10
\* C10: a file operation that returns Err is the last file operation of its
\* job (no later seek, write, sync, pass or remove), no Updated event is sent
\* after it, and the one event sent after it is Finished(false); after a
\* failed metadata, seek, write, sync or remove the file still has its
\* directory entry.
C10_ErrorAborts ==
    \A i \in DOMAIN ops : ~ops[i].ok =>
        /\ i = Len(ops)
        /\ thread.pc \in {"finish", "done", "panicked"}
        /\ ~thread.result
        /\ Len(events) = ops[i].sent + (IF Terminated THEN 1 ELSE 0)
        /\ Terminated => events[Len(events)].kind = "Finished" /\ ~events[Len(events)].ok
        /\ ops[i].op # "open" => PathExists

\* a write failed in the second pass after a throttled Updated had been
\* sent; Finished(false) is queued and the third pass never started
C10_Witness ==
    /\ thread.pc = "done"
    /\ ops[Len(ops)].op = "write"
    /\ ~ops[Len(ops)].ok
    /\ ops[Len(ops)].pass = 1
    /\ ops[Len(ops)].sent >= 1
    /\ thread.passes = 3

\* ---------------------------------------------------------------- C11
\* the sync_all calls of the latest job that returned Ok
Flushes == {i \in DOMAIN ops : ops[i].op = "sync" /\ ops[i].ok}

\* the successful writes of pass k among the first j file operations
WritesOfPassBefore(k, j) ==
    {w \in 1..j : ops[w].op = "write" /\ ops[w].ok /\ ops[w].pass = k}

\* C11: every write of pass k+1 comes after a successful sync_all of pass k
\* that itself comes after all ceil(s/B) writes of pass k; and when k >= 1
\* flushes have succeeded, every byte of the content last made durable is a
\* byte of pass k, and every byte written since is of pass k or k+1, so
\* that no byte of the original content (0) is left on the disk.
C11_FlushBeforeNextPass ==
    /\ \A i \in DOMAIN ops :
          (ops[i].op = "write" /\ ops[i].pass > 0) =>
              \E j \in 1..(i - 1) :
                  /\ ops[j].op = "sync" /\ ops[j].ok
                  /\ ops[j].pass = ops[i].pass - 1
                  /\ Cardinality(WritesOfPassBefore(ops[j].pass, j))
                        = WritesPerPass(thread.file_size, buffer_size)
    /\ thread.file_size > 0 =>
          LET k == Cardinality(Flushes) IN
              /\ k = thread.pass
              /\ Len(thread.durable) = thread.file_size
              /\ Len(thread.data) = thread.file_size
              /\ k >= 1 => \A b \in 1..thread.file_size :
                              /\ thread.durable[b] = k
                              /\ thread.data[b] \in {k, k + 1}

\* the second pass under way on a file of several chunks: one flush has
\* succeeded and the file holds bytes of the first and of the second pass
C11_Witness ==
    /\ thread.pc = "write"
    /\ thread.pass = 1
    /\ thread.file_size = MaxFileSize
    /\ \E b \in DOMAIN thread.data : thread.data[b] = 2
    /\ \E b \in DOMAIN thread.data : thread.data[b] = 1
    /\ \A b \in DOMAIN thread.durable : thread.durable[b] = 1

\* ---------------------------------------------------------------- C12
\* C12: on a non-empty file, remove_file is the last file operation of the
\* job (no write or sync follows it) and comes right after the handle was
\* closed; before it, every one of the p passes made its ceil(s/B) writes and
\* its successful sync_all, so that the whole durable content is of the last
\* pass; the file keeps its directory entry until a remove_file returns Ok.
C12_WriteThenUnlink ==
    /\ \A i \in DOMAIN ops :
          (ops[i].op = "remove" /\ thread.file_size > 0) =>
              /\ i = Len(ops)
              /\ i > 1 /\ ops[i - 1].op = "close"
              /\ ~thread.handle
              /\ \A k \in 0..(thread.passes - 1) :
                    /\ \E j \in 1..(i - 1) :
                          ops[j].op = "sync" /\ ops[j].ok /\ ops[j].pass = k
                    /\ Cardinality(WritesOfPassBefore(k, i))
                          = WritesPerPass(thread.file_size, buffer_size)
              /\ \A b \in 1..thread.file_size : thread.durable[b] = thread.passes
    /\ (thread.file_size > 0 /\ ~\E i \in DOMAIN ops : ops[i].op = "remove" /\ ops[i].ok)
          => PathExists

\* a file of several chunks removed after its three passes, the final
\* Updated(100.0) not yet sent
C12_Witness ==
    /\ thread.pc = "send_final"
    /\ thread.passes = 3
    /\ thread.file_size = MaxFileSize
    /\ ops[Len(ops)].op = "remove" /\ ops[Len(ops)].ok
    /\ ~PathExists

\* ---------------------------------------------------------------- C13
\* C13: the queue never holds more than its capacity; in every state the
\* events update has processed, followed by the events still in the queue,
\* are exactly the events the channel accepted from the worker, in the order
\* of the sends (nothing dropped, duplicated, merged or reordered, also
\* while the producer is blocked on a full queue); while the application
\* runs the channel accepts every event the worker sends; and once Finished
\* has been processed, the observer has received every event of the job.
C13_LosslessFifo ==
    /\ Len(queue) <= ChannelCapacity
    /\ observed \o queue = Queued(events)
    /\ alive => Queued(events) = events
    /\ FinishedAt(observed) # {} => observed = events /\ queue = <<>>

\* the consumer has fallen behind: it has processed one event, the queue is
\* full and the producer is blocked in the send of a further throttled event
C13_Witness ==
    /\ Connected
    /\ thread.pc = "send_progress"
    /\ Len(queue) = ChannelCapacity
    /\ Len(observed) >= 1
    /\ Len(events) = Len(observed) + ChannelCapacity

\* ---------------------------------------------------------------- C14
\* update has just processed a Finished event
FinishedProcessed ==
    /\ Len(observed') = Len(observed) + 1
    /\ observed'[Len(observed')].kind = "Finished"

\* C14: the step in which update processes Finished(success), for either
\* value of success, leaves erasing = false and receiver = None, and they
\* stay so until the next start; in every such state of a running
\* application an EraseFile that starts a job is possible, and every
\* EraseFile processed while erasing is false does start one: a new channel
\* (empty, its receiver in App.receiver) and a new thread on App.file.
C14_FinishedAllowsRestart ==
    /\ [][FinishedProcessed => (~erasing' /\ receiver' = 0)]_vars
    /\ [](FinishedAt(observed) # {} => (~erasing /\ receiver = 0))
    /\ []((alive /\ FinishedAt(observed) # {} /\ jobs < MaxJobs)
            => ENABLED (EraseFile /\ jobs' = jobs + 1))
    /\ [][(~erasing /\ (jobs' # jobs \/ ignored' # ignored)) =>
            /\ jobs' = jobs + 1
            /\ erasing' /\ receiver' = jobs'
            /\ queue' = <<>>
            /\ thread' = Spawn(file, PolicyPasses, jobs')]_vars

\* a second job was started after the first one's Finished, and its own
\* Finished(false) has been processed: the coordinator is Idle again
C14_Witness ==
    /\ jobs = 2
    /\ thread.job = 2
    /\ FinishedAt(observed) # {}
    /\ ~observed[Len(observed)].ok
    /\ ~erasing
    /\ receiver = 0

\* ---------------------------------------------------------------- C15
\* the sends of an Updated event that the channel refused
RefusedUpdates == {i \in DOMAIN events : events[i].kind = "Updated" /\ ~events[i].sent}

\* C15: when the send of an Updated event is refused because every receiver
\* is gone, securely_overwrite returns Err at that send: no file operation
\* (seek, write, sync, close or remove) is performed after it and no further
\* Updated is sent; the closure then sends Finished(false), the one event
\* after the refused one.
C15_SendFailureAborts ==
    \A i \in RefusedUpdates :
        /\ thread.pc \in {"finish", "done", "panicked"}
        /\ ~thread.result
        /\ \A j \in DOMAIN ops : ops[j].sent < i
        /\ Len(events) = i + (IF Terminated THEN 1 ELSE 0)
        /\ Terminated => events[i + 1].kind = "Finished" /\ ~events[i + 1].ok

\* a throttled Updated was refused in the middle of a pass; the rest of the
\* pass was not written and Finished(false) was attempted
C15_Witness ==
    /\ Terminated
    /\ thread.remaining > 0
    /\ \E i \in RefusedUpdates : events[i].val # F32Hundred /\ i > 1

\* ---------------------------------------------------------------- C16
\* C16: when the send of Finished is refused because every receiver is gone,
\* the worker thread returns from its closure normally; it never panics.
\* The closure calls expect on the result of the send, so the refused send
\* unwinds the thread: the state with pc = "panicked" is reached.
C16_NoPanicOnDisconnect ==
    \A i \in FinishedAt(events) : ~events[i].sent => thread.pc = "done"

\* ---------------------------------------------------------------- C17
\* C17: every event in the channel and every event update has processed
\* since the latest start was sent by the thread of the latest job; an event
\* is processed only while that job is Running, and none after its
\* Finished; an accepted start finds the previous channel empty and its
\* producer returned (nothing of the earlier job is left to deliver),
\* installs a fresh empty channel and resets progress to 0.
C17_EventsOfCurrentJob ==
    /\ [](\A i \in DOMAIN queue : queue[i].job = jobs)
    /\ [](\A i \in DOMAIN observed : observed[i].job = jobs)
    /\ [](\A i \in FinishedAt(observed) : i = Len(observed))
    /\ [][(Len(observed') > Len(observed)) =>
            /\ erasing /\ receiver = jobs /\ thread.job = jobs
            /\ observed'[Len(observed')].job = jobs
            /\ FinishedAt(observed) = {}]_vars
    /\ [][(jobs' # jobs) =>
            /\ queue = <<>> /\ thread.pc \in {"none", "done"}
            /\ jobs > 0 => FinishedAt(observed) # {}
            /\ queue' = <<>> /\ receiver' = jobs' /\ thread'.job = jobs'
            /\ progress' = F32Zero]_vars

\* the second job is Running and update has processed a throttled Updated
\* of it: the displayed progress is that event's value
C17_Witness ==
    /\ jobs = 2
    /\ erasing
    /\ observed # <<>>
    /\ observed[Len(observed)].kind = "Updated"
    /\ observed[Len(observed)].job = 2
    /\ progress = observed[Len(observed)].val
    /\ progress # F32Hundred

\* ---------------------------------------------------------------- C18
\* C18: in every reachable state erasing is true exactly when receiver is
\* Some, and the receiver is then the one of the latest job's channel; the
\* subscription hands an event to update only while a job is Running.
C18_ErasingIffReceiver ==
    /\ erasing <=> receiver # 0
    /\ receiver # 0 => receiver = jobs /\ thread.job = jobs
    /\ (ENABLED DeliverProgress) => erasing

\* the second job is Running, an EraseFile was ignored meanwhile and a file
\* dialog is open
C18_Witness ==
    /\ jobs = 2
    /\ erasing
    /\ receiver = 2
    /\ ignored
    /\ dialogs = 1

\* ---------------------------------------------------------------- C19
\* what SelectFile and FileOpened must leave alone
JobState == <<erasing, progress, receiver, thread, queue, jobs, fs, events, observed, ops>>

\* C19: a SelectFile or FileOpened step (the steps that change the count of
\* open dialogs or App.file) changes nothing but that count and App.file,
\* SelectFile leaves App.file unchanged too, and FileOpened either stores a
\* path or (Err) leaves the file as it is; the thread's path is App.file as
\* it was when the start was accepted, it never changes during the job, and
\* the only directory entry the job removes is the one of that path.
C19_SelectionLeavesJobAlone ==
    /\ [][(dialogs' # dialogs \/ file' # file) => UNCHANGED JobState]_vars
    /\ [][(dialogs' > dialogs) => file' = file]_vars
    /\ [][(file' # file) => (dialogs' = dialogs - 1 /\ file' \in Paths)]_vars
    /\ [][(jobs' # jobs) => thread'.path = file]_vars
    /\ [][(jobs' = jobs) => thread'.path = thread.path]_vars
    /\ [][(fs' # fs) => fs' = [fs EXCEPT ![thread.path] = NoFile]]_vars

\* while the job on "a" was Running the user picked "b": the job removed
\* "a" and left "b" alone
C19_Witness ==
    /\ erasing
    /\ thread.result
    /\ thread.path = "a"
    /\ file = "b"
    /\ ~fs["a"].exists
    /\ fs["b"].exists

\* ---------------------------------------------------------------- C20
\* C20: from the step in which update processes Finished(success) until the
\* next accepted start, progress is 100.0, for success true and false alike,
\* also when the job sent no Updated event at all.
C20_ProgressHundredAfterFinished ==
    FinishedAt(observed) # {} => progress = F32Hundred

\* open failed, Finished(false) was the only event of the job and update
\* has processed it: the bar shows 100.0
C20_Witness ==
    /\ OpenFailed
    /\ Len(observed) = 1
    /\ observed[1].kind = "Finished" /\ ~observed[1].ok
    /\ progress = F32Hundred
    /\ ~erasing

====
